---- MODULE Spec2Model ----
(***************************************************************************)
(* Model of the logger facade of jkaninda/logger (logger.go): the Config   *)
(* record, the functional options, New / Default / WithOptions, the sink   *)
(* derivation of initLogger, Close, the level predicates, and the log      *)
(* calls the facade inherits from the embedded slog.Logger.                *)
(***************************************************************************)
EXTENDS Integers, Sequences, FiniteSets, TLC

VARIABLES
    loggers,    \* heap of Logger structs, indexed by logger id
    files,      \* heap of lumberjack.Logger writers, indexed by handle id
    written,    \* records that reached standard output, the process default logger or a file
    origin,     \* per logger: the constructor that built it
    lastCall,   \* the last API call made, its arguments and what it returned
    pc,         \* per thread: position in the operation it runs
    frame,      \* per thread: the operation's local variables
    mu,         \* per logger: the thread holding l.mu (0 when free)
    published,  \* loggers whose constructor has returned them to a caller
    nilSeen     \* a log call read a Logger whose embedded *slog.Logger was nil

vars == <<loggers, files, written, origin, lastCall, pc, frame, mu, published, nilSeen>>

----
\* Bounds of the model.
MaxLoggers == 2
MaxOpts == 2
MaxRecords == 1
MaxThreads == 2
MaxConcOpts == 1

----
\* LogLevel constants (logger.go 40-46) and an unnamed level string.
LevelDebug == "debug"
LevelInfo == "info"
LevelWarning == "warning"
LevelError == "error"
LevelOff == "off"
LevelInputs == {LevelDebug, LevelInfo, LevelWarning, LevelError, LevelOff, "trace"}

\* slog.Level values the facade maps to (log/slog: Debug -4, Info 0, Warn 4, Error 8).
slogLevelDebug == -4
slogLevelInfo == 0
slogLevelWarn == 4
slogLevelError == 8
Severities == {slogLevelDebug, slogLevelInfo, slogLevelWarn, slogLevelError}

\* Default configuration values set by New.
DefaultMaxAgeDays == 7
DefaultMaxBackups == 3
DefaultMaxSizeMB == 100

FileInputs == {"test.log", ""}
IntInputs == {1}

\* Config{} with every field at Go's zero value.
ZeroConfig ==
    [Level |-> "", OutputFile |-> "", MaxAgeDays |-> 0, MaxBackups |-> 0,
     MaxSizeMB |-> 0, Compress |-> FALSE, JSONFormat |-> FALSE, UseDefault |-> FALSE]

----
\* Options: an Option is a func(*Config); it is represented by the field it
\* writes and the value it writes there.
Opt(k, s, n) == [kind |-> k, str |-> s, num |-> n]

WithLevel(level) == Opt("Level", level, 0)
WithOutputFile(file) == Opt("OutputFile", file, 0)
WithMaxAge(days) == Opt("MaxAge", "", days)
WithMaxBackups(count) == Opt("MaxBackups", "", count)
WithMaxSize(sizeMB) == Opt("MaxSize", "", sizeMB)
WithCompression == Opt("Compression", "", 0)
WithJSONFormat == Opt("JSONFormat", "", 0)
WithDefaultFormat == Opt("DefaultFormat", "", 0)
WithDebugLevel == WithLevel(LevelDebug)
WithInfoLevel == WithLevel(LevelInfo)
WithWarningLevel == WithLevel(LevelWarning)
WithErrorLevel == WithLevel(LevelError)
WithLevelOff == WithLevel(LevelOff)

\* The effect of calling one option on a draft configuration.
ApplyOptionSwapped(o, c) ==
    CASE o.kind = "Level" -> [c EXCEPT !.Level = o.str]
      [] o.kind = "OutputFile" -> [c EXCEPT !.OutputFile = o.str]
      [] o.kind = "MaxAge" -> [c EXCEPT !.MaxBackups = o.num]
      [] o.kind = "MaxBackups" -> [c EXCEPT !.MaxBackups = o.num]
      [] o.kind = "MaxSize" -> [c EXCEPT !.MaxSizeMB = o.num]
      [] o.kind = "Compression" -> [c EXCEPT !.Compress = TRUE]
      [] o.kind = "JSONFormat" -> [c EXCEPT !.JSONFormat = TRUE]
      [] o.kind = "DefaultFormat" -> [c EXCEPT !.UseDefault = TRUE]

ApplyOption(o, c) ==
    CASE o.kind = "Level" -> [c EXCEPT !.Level = o.str]
      [] o.kind = "OutputFile" -> [c EXCEPT !.OutputFile = o.str]
      [] o.kind = "MaxAge" -> [c EXCEPT !.MaxAgeDays = o.num]
      [] o.kind = "MaxBackups" -> [c EXCEPT !.MaxBackups = o.num]
      [] o.kind = "MaxSize" -> [c EXCEPT !.MaxSizeMB = o.num]
      [] o.kind = "Compression" -> [c EXCEPT !.Compress = TRUE]
      [] o.kind = "JSONFormat" -> [c EXCEPT !.JSONFormat = TRUE]
      [] o.kind = "DefaultFormat" -> [c EXCEPT !.UseDefault = TRUE]

\* for _, opt := range opts { opt(&cfg) }
RECURSIVE ApplyOpts(_, _)
ApplyOpts(c, opts) ==
    IF opts = <<>> THEN c
    ELSE ApplyOpts(ApplyOption(Head(opts), c), Tail(opts))

\* The options and option sequences callers pass.
Options ==
    {WithLevel(lv) : lv \in LevelInputs}
        \cup {WithOutputFile(f) : f \in FileInputs}
        \cup {WithMaxAge(n) : n \in IntInputs}
        \cup {WithMaxBackups(n) : n \in IntInputs}
        \cup {WithMaxSize(n) : n \in IntInputs}
        \cup {WithCompression, WithJSONFormat, WithDefaultFormat}

OptSeqs == UNION {[1..n -> Options] : n \in 0..MaxOpts}

\* The configuration New starts from.
NewDefaults ==
    [ZeroConfig EXCEPT !.Level = LevelInfo, !.MaxAgeDays = DefaultMaxAgeDays,
                       !.MaxBackups = DefaultMaxBackups, !.MaxSizeMB = DefaultMaxSizeMB,
                       !.UseDefault = FALSE]

----
\* The embedded *slog.Logger: where its handler writes (out), the writer's
\* handle when that is a file (w), the encoding and the minimum level.
Handler(o, w, j, lv) == [out |-> o, w |-> w, json |-> j, level |-> lv]
NilHandler == Handler("nil", 0, FALSE, 0)

\* slog.Default(): the process-wide logger; plain text, minimum level Info.
slogDefault == Handler("default", 0, FALSE, slogLevelInfo)

\* slog.New(slog.NewTextHandler(io.Discard, nil)): nil options filter at Info.
slogDiscard == Handler("discard", 0, FALSE, slogLevelInfo)

toSlogLevel(level) ==
    CASE level = LevelDebug -> slogLevelDebug
      [] level = LevelInfo -> slogLevelInfo
      [] level = LevelWarning -> slogLevelWarn
      [] level = LevelError -> slogLevelError
      [] OTHER -> slogLevelInfo

\* &lumberjack.Logger{...} built from the configuration; it opens its file on
\* the first write.
LumberjackLogger(c) ==
    [Filename |-> c.OutputFile, MaxAge |-> c.MaxAgeDays, MaxBackups |-> c.MaxBackups,
     MaxSize |-> c.MaxSizeMB, Compress |-> c.Compress, open |-> FALSE]

\* &Logger{config: cfg, disabled: cfg.Level == LevelOff}
LoggerStructNeverDisabled(cfg) ==
    [config |-> cfg, handler |-> NilHandler, file |-> 0, disabled |-> FALSE]

LoggerStruct(cfg) ==
    [config |-> cfg, handler |-> NilHandler, file |-> 0, disabled |-> cfg.Level = LevelOff]

\* initLogger, first part: the two early returns.
initEarly(lg) ==
    IF lg.disabled THEN [done |-> TRUE, lg |-> [lg EXCEPT !.handler = slogDiscard]]
    ELSE IF lg.config.UseDefault THEN [done |-> TRUE, lg |-> [lg EXCEPT !.handler = slogDefault]]
    ELSE [done |-> FALSE, lg |-> lg]

\* initLogger, second part: l.file is assigned when an output file is configured;
\* fid is the handle the new lumberjack.Logger gets.
NeedsFileInverted(lg) == lg.config.OutputFile = ""
NeedsFile(lg) == lg.config.OutputFile # ""
initFile(lg, fid) == IF NeedsFile(lg) THEN [lg EXCEPT !.file = fid] ELSE lg

\* initLogger, third part: the handler over the chosen output.
initHandler(lg) ==
    [lg EXCEPT !.handler =
        Handler(IF lg.file # 0 THEN "file" ELSE "stdout", lg.file,
                lg.config.JSONFormat, toSlogLevel(lg.config.Level))]

\* initLogger as a whole: the Logger after it, and whether it made a writer.
initLoggerFileFirst(lg, fid) ==
    LET withFile == initFile(lg, fid)
        early == initEarly(withFile)
    IN  IF early.done THEN [lg |-> early.lg, made |-> NeedsFile(lg)]
        ELSE [lg |-> initHandler(withFile), made |-> NeedsFile(lg)]

initLogger(lg, fid) ==
    LET early == initEarly(lg)
    IN  IF early.done THEN [lg |-> early.lg, made |-> FALSE]
        ELSE [lg |-> initHandler(initFile(lg, fid)), made |-> NeedsFile(lg)]

----
\* Utility methods.
IsDebugEnabled(lg) == lg.config.Level = LevelDebug /\ ~lg.disabled
IsInfoEnabled(lg) ==
    (lg.config.Level = LevelDebug \/ lg.config.Level = LevelInfo) /\ ~lg.disabled
IsWarningEnabledOnlyWarning(lg) == lg.config.Level = LevelWarning /\ ~lg.disabled
IsWarningEnabled(lg) ==
    lg.config.Level # LevelError /\ lg.config.Level # LevelOff /\ ~lg.disabled
IsErrorEnabled(lg) == lg.config.Level # LevelOff /\ ~lg.disabled
GetLevel(lg) == lg.config.Level
GetConfig(lg) == lg.config

IsEnabled(lg, sev) ==
    CASE sev = slogLevelDebug -> IsDebugEnabled(lg)
      [] sev = slogLevelInfo -> IsInfoEnabled(lg)
      [] sev = slogLevelWarn -> IsWarningEnabled(lg)
      [] sev = slogLevelError -> IsErrorEnabled(lg)

\* Whether the embedded slog.Logger hands a record of severity sev to a real
\* output: its handler's minimum level passes it and the output is not io.Discard.
Emits(lg, sev) ==
    /\ lg.handler.out \notin {"nil", "discard"}
    /\ sev >= lg.handler.level

\* The record a log call leaves, and where.
Record(l, lg, sev) ==
    [by |-> l, target |-> lg.handler.out,
     path |-> IF lg.handler.out = "file" THEN files[lg.handler.w].Filename ELSE "",
     json |-> lg.handler.json]

----
\* The calling side: one caller, each API call one step.
NoCall == [op |-> "none", l |-> 0, res |-> 0, opts |-> <<>>, ret |-> "nil", werr |-> "nil"]
Call(op, l, res, opts, ret, werr) ==
    [op |-> op, l |-> l, res |-> res, opts |-> opts, ret |-> ret, werr |-> werr]

Threads == 1..MaxThreads
concVars == <<pc, frame, mu, published, nilSeen>>
NoFrame == [op |-> "none", l |-> 0, err |-> "nil"]

Init ==
    /\ loggers = <<>>
    /\ files = <<>>
    /\ written = {}
    /\ origin = <<>>
    /\ lastCall = NoCall
    /\ pc = [t \in Threads |-> "idle"]
    /\ frame = [t \in Threads |-> NoFrame]
    /\ mu = <<>>
    /\ published = {}
    /\ nilSeen = FALSE

\* Allocation of the Logger built from cfg, initLogger included.
Construct(cfg, via, call) ==
    LET id == Len(loggers) + 1
        r == initLogger(LoggerStruct(cfg), Len(files) + 1)
    IN  /\ Len(loggers) < MaxLoggers
        /\ loggers' = Append(loggers, r.lg)
        /\ files' = IF r.made THEN Append(files, LumberjackLogger(cfg)) ELSE files
        /\ origin' = Append(origin, via)
        /\ mu' = Append(mu, 0)
        /\ published' = published \cup {id}
        /\ lastCall' = [call EXCEPT !.res = id]
        /\ UNCHANGED <<written, pc, frame, nilSeen>>

\* func Default() *Logger
Default ==
    /\ Len(loggers) < MaxLoggers
    /\ loggers' = Append(loggers,
            [config |-> [ZeroConfig EXCEPT !.UseDefault = TRUE],
             handler |-> slogDefault, file |-> 0, disabled |-> FALSE])
    /\ origin' = Append(origin, "Default")
    /\ mu' = Append(mu, 0)
    /\ published' = published \cup {Len(loggers) + 1}
    /\ lastCall' = Call("Default", 0, Len(loggers) + 1, <<>>, "nil", "nil")
    /\ UNCHANGED <<files, written, pc, frame, nilSeen>>

\* func New(opts ...Option) *Logger
New(opts) ==
    Construct(ApplyOpts(NewDefaults, opts), "New",
              Call("New", 0, 0, opts, "nil", "nil"))

\* func (l *Logger) WithOptions(opts ...Option) *Logger
WithOptionsFromDefaults(l, opts) ==
    Construct(ApplyOpts(NewDefaults, opts), "WithOptions",
              Call("WithOptions", l, 0, opts, "nil", "nil"))

WithOptionsInPlace(l, opts) ==
    LET cfg == ApplyOpts(loggers[l].config, opts)
        r == initLogger(LoggerStruct(cfg), Len(files) + 1)
    IN  /\ Len(loggers) < MaxLoggers
        /\ loggers' = Append([loggers EXCEPT ![l].config = cfg], r.lg)
        /\ files' = IF r.made THEN Append(files, LumberjackLogger(cfg)) ELSE files
        /\ origin' = Append(origin, "WithOptions")
        /\ mu' = Append(mu, 0)
        /\ published' = published \cup {Len(loggers) + 1}
        /\ lastCall' = Call("WithOptions", l, Len(loggers) + 1, opts, "nil", "nil")
        /\ UNCHANGED <<written, pc, frame, nilSeen>>

WithOptions(l, opts) ==
    Construct(ApplyOpts(loggers[l].config, opts), "WithOptions",
              Call("WithOptions", l, 0, opts, "nil", "nil"))

\* lumberjack's Close: closes the file if it is open and returns the error of
\* that close, which the operating system decides; nil when nothing is open.
CloseErrors(f) == IF files[f].open THEN {"nil", "close failed"} ELSE {"nil"}

\* func (l *Logger) Close() error
CloseSwallowsError(l) ==
    /\ IF loggers[l].file # 0
       THEN \E e \in CloseErrors(loggers[l].file) :
                /\ files' = [files EXCEPT ![loggers[l].file].open = FALSE]
                /\ lastCall' = Call("Close", l, 0, <<>>, "nil", e)
       ELSE /\ files' = files
            /\ lastCall' = Call("Close", l, 0, <<>>, "nil", "nil")
    /\ UNCHANGED <<loggers, written, origin, concVars>>

Close(l) ==
    /\ IF loggers[l].file # 0
       THEN \E e \in CloseErrors(loggers[l].file) :
                /\ files' = [files EXCEPT ![loggers[l].file].open = FALSE]
                /\ lastCall' = Call("Close", l, 0, <<>>, e, e)
       ELSE /\ files' = files
            /\ lastCall' = Call("Close", l, 0, <<>>, "nil", "nil")
    /\ UNCHANGED <<loggers, written, origin, concVars>>

\* l.Debug / l.Info / l.Warn / l.Error: the embedded slog.Logger's methods.
\* The handler drops the record or writes it to its output; a lumberjack
\* writer opens its file when written to.
Emit(l, sev) ==
    LET lg == loggers[l]
    IN  IF Emits(lg, sev)
        THEN /\ Cardinality(written \cup {Record(l, lg, sev)}) <= MaxRecords
             /\ written' = written \cup {Record(l, lg, sev)}
             /\ files' = IF lg.handler.out = "file"
                         THEN [files EXCEPT ![lg.handler.w].open = TRUE]
                         ELSE files
        ELSE UNCHANGED <<written, files>>

Log(l, sev) ==
    /\ Emit(l, sev)
    /\ lastCall' = Call("Log", l, 0, <<>>, "nil", "nil")
    /\ UNCHANGED <<loggers, origin, concVars>>

Next ==
    \/ Default
    \/ \E opts \in OptSeqs : New(opts)
    \/ \E l \in DOMAIN loggers : \E opts \in OptSeqs : WithOptions(l, opts)
    \/ \E l \in DOMAIN loggers : Close(l)
    \/ \E l \in DOMAIN loggers : \E sev \in Severities : Log(l, sev)

Spec == Init /\ [][Next]_vars

----
\* Several threads sharing the loggers: every statement that touches shared
\* state is a step of its own.
ConcOptions == {WithLevelOff, WithOutputFile("test.log"), WithDefaultFormat, WithJSONFormat}
ConcOptSeqs == UNION {[1..n -> ConcOptions] : n \in 0..MaxConcOpts}

Me(t) == frame[t].l
Goto(t, label) == pc' = [pc EXCEPT ![t] = label]

\* l := &Logger{config: cfg, disabled: ...}: the struct exists, only the
\* constructing thread holds a reference to it.
AllocatePublished(t, cfg, op) ==
    /\ pc[t] = "idle"
    /\ Len(loggers) < MaxLoggers
    /\ loggers' = Append(loggers, LoggerStruct(cfg))
    /\ origin' = Append(origin, op)
    /\ mu' = Append(mu, 0)
    /\ frame' = [frame EXCEPT ![t] = [op |-> op, l |-> Len(loggers) + 1, err |-> "nil"]]
    /\ published' = published \cup {Len(loggers) + 1}
    /\ Goto(t, "lock")
    /\ UNCHANGED <<files, written, lastCall, nilSeen>>

Allocate(t, cfg, op) ==
    /\ pc[t] = "idle"
    /\ Len(loggers) < MaxLoggers
    /\ loggers' = Append(loggers, LoggerStruct(cfg))
    /\ origin' = Append(origin, op)
    /\ mu' = Append(mu, 0)
    /\ frame' = [frame EXCEPT ![t] = [op |-> op, l |-> Len(loggers) + 1, err |-> "nil"]]
    /\ Goto(t, "lock")
    /\ UNCHANGED <<files, written, lastCall, published, nilSeen>>

\* New, up to the call of initLogger.
NewEnter(t, opts) == Allocate(t, ApplyOpts(NewDefaults, opts), "New")

\* WithOptions, up to the call of initLogger; l.config is read without the lock.
WithOptionsEnter(t, l, opts) ==
    /\ l \in published
    /\ Allocate(t, ApplyOpts(loggers[l].config, opts), "WithOptions")

\* Close, up to l.mu.Lock().
CloseEnter(t, l) ==
    /\ pc[t] = "idle"
    /\ l \in published
    /\ frame' = [frame EXCEPT ![t] = [op |-> "Close", l |-> l, err |-> "nil"]]
    /\ Goto(t, "lock")
    /\ UNCHANGED <<loggers, files, written, origin, lastCall, mu, published, nilSeen>>

\* l.mu.Lock(), in initLogger and in Close.
Lock(t) ==
    /\ pc[t] = "lock"
    /\ mu[Me(t)] = 0
    /\ mu' = [mu EXCEPT ![Me(t)] = t]
    /\ Goto(t, IF frame[t].op = "Close" THEN "close" ELSE "early")
    /\ UNCHANGED <<loggers, files, written, origin, lastCall, frame, published, nilSeen>>

\* initLogger: the disabled and UseDefault branches.
InitEarly(t) ==
    /\ pc[t] = "early"
    /\ loggers' = [loggers EXCEPT ![Me(t)] = initEarly(loggers[Me(t)]).lg]
    /\ Goto(t, IF initEarly(loggers[Me(t)]).done THEN "unlock" ELSE "file")
    /\ UNCHANGED <<files, written, origin, lastCall, frame, mu, published, nilSeen>>

\* initLogger: l.file = &lumberjack.Logger{...}
InitFile(t) ==
    /\ pc[t] = "file"
    /\ loggers' = [loggers EXCEPT ![Me(t)] = initFile(loggers[Me(t)], Len(files) + 1)]
    /\ files' = IF NeedsFile(loggers[Me(t)])
                THEN Append(files, LumberjackLogger(loggers[Me(t)].config))
                ELSE files
    /\ Goto(t, "handler")
    /\ UNCHANGED <<written, origin, lastCall, frame, mu, published, nilSeen>>

\* initLogger: l.Logger = slog.New(...)
InitHandler(t) ==
    /\ pc[t] = "handler"
    /\ loggers' = [loggers EXCEPT ![Me(t)] = initHandler(loggers[Me(t)])]
    /\ Goto(t, "unlock")
    /\ UNCHANGED <<files, written, origin, lastCall, frame, mu, published, nilSeen>>

\* Close: if l.file != nil { return l.file.Close() }
CloseFile(t) ==
    /\ pc[t] = "close"
    /\ IF loggers[Me(t)].file # 0
       THEN \E e \in CloseErrors(loggers[Me(t)].file) :
                /\ files' = [files EXCEPT ![loggers[Me(t)].file].open = FALSE]
                /\ frame' = [frame EXCEPT ![t].err = e]
       ELSE UNCHANGED <<files, frame>>
    /\ Goto(t, "unlock")
    /\ UNCHANGED <<loggers, written, origin, lastCall, mu, published, nilSeen>>

\* defer l.mu.Unlock(); Close returns here.
Unlock(t) ==
    /\ pc[t] = "unlock"
    /\ mu' = [mu EXCEPT ![Me(t)] = 0]
    /\ IF frame[t].op = "Close"
       THEN /\ Goto(t, "idle")
            /\ frame' = [frame EXCEPT ![t] = NoFrame]
            /\ lastCall' = Call("Close", Me(t), 0, <<>>, frame[t].err, frame[t].err)
       ELSE /\ Goto(t, "return")
            /\ UNCHANGED <<frame, lastCall>>
    /\ UNCHANGED <<loggers, files, written, origin, published, nilSeen>>

\* return l / return newLogger: the caller, and through it every thread, has the logger.
Return(t) ==
    /\ pc[t] = "return"
    /\ published' = published \cup {Me(t)}
    /\ Goto(t, "idle")
    /\ frame' = [frame EXCEPT ![t] = NoFrame]
    /\ UNCHANGED <<loggers, files, written, origin, lastCall, mu, nilSeen>>

\* Default() has no initLogger call: the struct is returned complete.
DefaultCall(t) ==
    /\ pc[t] = "idle"
    /\ Default

\* A log call of thread t on a logger it was given. Calling a method of a nil
\* embedded *slog.Logger dereferences nil.
LogCall(t, l, sev) ==
    /\ pc[t] = "idle"
    /\ l \in published
    /\ IF loggers[l].handler.out = "nil"
       THEN /\ nilSeen' = TRUE
            /\ UNCHANGED <<written, files>>
       ELSE /\ Emit(l, sev)
            /\ UNCHANGED nilSeen
    /\ UNCHANGED <<loggers, origin, lastCall, pc, frame, mu, published>>

ConcNext ==
    \/ \E t \in Threads : DefaultCall(t)
    \/ \E t \in Threads : \E opts \in ConcOptSeqs : NewEnter(t, opts)
    \/ \E t \in Threads : \E l \in DOMAIN loggers : \E opts \in ConcOptSeqs :
            WithOptionsEnter(t, l, opts)
    \/ \E t \in Threads : \E l \in DOMAIN loggers : CloseEnter(t, l)
    \/ \E t \in Threads : Lock(t)
    \/ \E t \in Threads : InitEarly(t)
    \/ \E t \in Threads : InitFile(t)
    \/ \E t \in Threads : InitHandler(t)
    \/ \E t \in Threads : CloseFile(t)
    \/ \E t \in Threads : Unlock(t)
    \/ \E t \in Threads : Return(t)
    \/ \E t \in Threads : \E l \in DOMAIN loggers : \E sev \in Severities : LogCall(t, l, sev)

ConcSpec == Init /\ [][ConcNext]_vars

----
\* What the claims speak of.
Built == {l \in DOMAIN loggers : origin[l] \in {"New", "WithOptions"}}
NamedLevels == {"debug", "info", "warning", "error", "off"}

\* The last position of opts holding an option of kind k, 0 when there is none.
LastIdx(opts, k) ==
    LET S == {i \in DOMAIN opts : opts[i].kind = k}
    IN  IF S = {} THEN 0 ELSE CHOOSE i \in S : \A j \in S : j <= i

\* Configuration c with, field by field, the value of the last option of opts
\* that sets the field, and c's value where no option does.
LastWins(c, opts) ==
    [Level |-> IF LastIdx(opts, "Level") = 0 THEN c.Level
               ELSE opts[LastIdx(opts, "Level")].str,
     OutputFile |-> IF LastIdx(opts, "OutputFile") = 0 THEN c.OutputFile
                    ELSE opts[LastIdx(opts, "OutputFile")].str,
     MaxAgeDays |-> IF LastIdx(opts, "MaxAge") = 0 THEN c.MaxAgeDays
                    ELSE opts[LastIdx(opts, "MaxAge")].num,
     MaxBackups |-> IF LastIdx(opts, "MaxBackups") = 0 THEN c.MaxBackups
                    ELSE opts[LastIdx(opts, "MaxBackups")].num,
     MaxSizeMB |-> IF LastIdx(opts, "MaxSize") = 0 THEN c.MaxSizeMB
                   ELSE opts[LastIdx(opts, "MaxSize")].num,
     Compress |-> c.Compress \/ LastIdx(opts, "Compression") # 0,
     JSONFormat |-> c.JSONFormat \/ LastIdx(opts, "JSONFormat") # 0,
     UseDefault |-> c.UseDefault \/ LastIdx(opts, "DefaultFormat") # 0]

\* The logger WithOptions returned is a new one and holds the parent's
\* configuration with the options applied.
C1_Result ==
    lastCall.op = "WithOptions" =>
        /\ lastCall.res = Len(loggers)
        /\ lastCall.res # lastCall.l
        /\ GetConfig(loggers[lastCall.res]) = LastWins(GetConfig(loggers[lastCall.l]), lastCall.opts)
        /\ GetLevel(loggers[lastCall.res]) = LastWins(GetConfig(loggers[lastCall.l]), lastCall.opts).Level
\* A WithOptions step changes no logger and no file writer that existed before it.
C1_Frame ==
    lastCall'.op = "WithOptions" =>
        /\ \A i \in DOMAIN loggers : i \in DOMAIN loggers' /\ loggers'[i] = loggers[i]
        /\ \A f \in DOMAIN files : f \in DOMAIN files' /\ files'[f] = files[f]
\* C1: l.WithOptions(opts) returns a new logger whose configuration is l's with
\* opts applied in order (unset fields keep l's values), and the call leaves l
\* and every other existing logger and file writer exactly as they were.
C1_WithOptionsCopies == [](C1_Result) /\ [][C1_Frame]_vars

\* TestWithOptions: {info, test.log} re-derived with {debug, json}.
C1_Witness ==
    /\ lastCall.op = "WithOptions"
    /\ lastCall.opts = <<WithDebugLevel, WithJSONFormat>>
    /\ GetLevel(loggers[lastCall.l]) = LevelInfo
    /\ GetConfig(loggers[lastCall.l]).OutputFile = "test.log"
    /\ ~GetConfig(loggers[lastCall.l]).JSONFormat
    /\ GetLevel(loggers[lastCall.res]) = LevelDebug
    /\ GetConfig(loggers[lastCall.res]).JSONFormat
    /\ GetConfig(loggers[lastCall.res]).OutputFile = "test.log"

\* C2: New(opts).GetConfig() is the default configuration {info, 7, 3, 100, no
\* file, no compression, text, no default format} with, for every field, the
\* value of the last option that sets it.
C2_NewConfig ==
    lastCall.op = "New" =>
        GetConfig(loggers[lastCall.res]) =
            LastWins([Level |-> "info", OutputFile |-> "", MaxAgeDays |-> 7,
                      MaxBackups |-> 3, MaxSizeMB |-> 100, Compress |-> FALSE,
                      JSONFormat |-> FALSE, UseDefault |-> FALSE], lastCall.opts)

C2_Witness ==
    /\ lastCall.op = "New"
    /\ lastCall.opts = <<WithMaxAge(1), WithDebugLevel>>
    /\ GetConfig(loggers[lastCall.res]).MaxAgeDays = 1
    /\ GetConfig(loggers[lastCall.res]).MaxBackups = 3
    /\ GetConfig(loggers[lastCall.res]).Level = LevelDebug

\* C3: for a logger built by New with one of the five named levels, debug is
\* enabled iff the level is debug, info iff debug or info, warning iff debug,
\* info or warning, error iff the level is not off.
C3_LevelPredicates ==
    \A l \in DOMAIN loggers :
        (origin[l] = "New" /\ GetLevel(loggers[l]) \in NamedLevels) =>
            /\ IsDebugEnabled(loggers[l]) <=> GetLevel(loggers[l]) \in {"debug"}
            /\ IsInfoEnabled(loggers[l]) <=> GetLevel(loggers[l]) \in {"debug", "info"}
            /\ IsWarningEnabled(loggers[l]) <=> GetLevel(loggers[l]) \in {"debug", "info", "warning"}
            /\ IsErrorEnabled(loggers[l]) <=> GetLevel(loggers[l]) \in {"debug", "info", "warning", "error"}

C3_Witness ==
    \E l \in DOMAIN loggers :
        /\ origin[l] = "New"
        /\ GetLevel(loggers[l]) = LevelError
        /\ ~IsWarningEnabled(loggers[l])
        /\ IsErrorEnabled(loggers[l])

\* C4: on every logger, each level-enabled predicate is true exactly when a
\* log call of that severity would be emitted by the logger's sink.
C4_PredicatesMatchSink ==
    \A l \in DOMAIN loggers : \A sev \in Severities :
        IsEnabled(loggers[l], sev) <=> Emits(loggers[l], sev)

\* C5: a logger built with level off is disabled, has the discard sink and no
\* file writer, whatever its output path, and no record comes from it.
C5_OffDiscards ==
    /\ \A l \in Built :
          GetLevel(loggers[l]) = LevelOff =>
              /\ loggers[l].disabled
              /\ loggers[l].handler.out = "discard"
              /\ loggers[l].file = 0
              /\ \A r \in written : r.by # l
    /\ \A f \in DOMAIN files : \E l \in DOMAIN loggers :
          loggers[l].file = f /\ GetLevel(loggers[l]) # LevelOff

C5_Witness ==
    /\ lastCall.op = "Log"
    /\ lastCall.l \in Built
    /\ GetLevel(loggers[lastCall.l]) = LevelOff
    /\ GetConfig(loggers[lastCall.l]).OutputFile # ""

\* The sink and the minimum severity a configuration calls for.
C6_SinkOf(c) ==
    IF c.Level = "off" THEN "discard"
    ELSE IF c.UseDefault THEN "default"
    ELSE IF c.OutputFile # "" THEN "file"
    ELSE "stdout"
C6_LevelOf(c) ==
    CASE c.Level = "debug" -> -4
      [] c.Level = "warning" -> 4
      [] c.Level = "error" -> 8
      [] OTHER -> 0
\* C6: the sink of a logger built by New or WithOptions is a function of its
\* configuration: level off gives discard; otherwise use-default gives the
\* process default logger, no file writer and plain text; otherwise the output
\* is the file writer (path non-empty) or standard output (path empty), JSON
\* iff the JSON flag is set, filtered at the configured level.
C6_SinkPrecedence ==
    /\ \A l \in Built :
          LET c == GetConfig(loggers[l])
              h == loggers[l].handler
          IN  /\ h.out = C6_SinkOf(c)
              /\ (loggers[l].file # 0) <=> (h.out = "file")
              /\ h.out = "default" => ~h.json
              /\ h.out \in {"file", "stdout"} =>
                    /\ h.json = c.JSONFormat
                    /\ h.level = C6_LevelOf(c)
              /\ h.out = "file" =>
                    /\ h.w = loggers[l].file
                    /\ files[h.w].Filename = c.OutputFile
                    /\ files[h.w].MaxAge = c.MaxAgeDays
                    /\ files[h.w].MaxBackups = c.MaxBackups
                    /\ files[h.w].MaxSize = c.MaxSizeMB
                    /\ files[h.w].Compress = c.Compress
              /\ \A r \in written : r.by = l =>
                    /\ r.target = C6_SinkOf(c)
                    /\ r.json = (c.JSONFormat /\ r.target # "default")
    /\ \A f \in DOMAIN files : \E l \in DOMAIN loggers : loggers[l].file = f

C6_Witness ==
    /\ lastCall.op = "Log"
    /\ lastCall.l \in Built
    /\ GetConfig(loggers[lastCall.l]).UseDefault
    /\ GetConfig(loggers[lastCall.l]).OutputFile # ""
    /\ GetConfig(loggers[lastCall.l]).JSONFormat
    /\ \E r \in written : r.by = lastCall.l /\ r.target = "default" /\ ~r.json

\* What Close returned and left of its own writer; no writer has two owners.
C7_Result ==
    /\ lastCall.op = "Close" =>
          IF loggers[lastCall.l].file = 0
          THEN lastCall.ret = "nil"
          ELSE /\ lastCall.ret = lastCall.werr
               /\ ~files[loggers[lastCall.l].file].open
    /\ \A l1, l2 \in DOMAIN loggers :
          (l1 # l2 /\ loggers[l1].file # 0) => loggers[l1].file # loggers[l2].file
\* A Close step changes nothing but the open state of the closing logger's writer.
C7_Frame ==
    lastCall'.op = "Close" =>
        /\ loggers' = loggers
        /\ written' = written
        /\ DOMAIN files' = DOMAIN files
        /\ \A f \in DOMAIN files : f # loggers[lastCall'.l].file => files'[f] = files[f]
        /\ \A f \in DOMAIN files : [files'[f] EXCEPT !.open = FALSE] = [files[f] EXCEPT !.open = FALSE]
\* C7: Close on a logger without a file writer changes nothing and returns
\* nil; on a file-backed logger it closes that logger's writer and returns the
\* writer's error; no two loggers share a writer, and Close leaves every other
\* logger, writer and record as it was.
C7_CloseOwnHandle == [](C7_Result) /\ [][C7_Frame]_vars

C7_Witness ==
    /\ lastCall.op = "Close"
    /\ lastCall.ret = "close failed"
    /\ loggers[lastCall.l].file # 0
    /\ \E l2 \in DOMAIN loggers :
          /\ origin[l2] = "WithOptions"
          /\ loggers[l2].file # 0
          /\ loggers[l2].file # loggers[lastCall.l].file

\* C8, as stated: New(p).WithOptions(s).GetConfig() = New(s).GetConfig().
C8_Original ==
    (lastCall.op = "WithOptions" /\ origin[lastCall.l] = "New") =>
        GetConfig(loggers[lastCall.res]) = ApplyOpts(NewDefaults, lastCall.opts)

\* Configurations a and b hold the same value in every field an option of s sets.
C8_FieldsAgree(a, b, s) ==
    /\ LastIdx(s, "Level") # 0 => a.Level = b.Level
    /\ LastIdx(s, "OutputFile") # 0 => a.OutputFile = b.OutputFile
    /\ LastIdx(s, "MaxAge") # 0 => a.MaxAgeDays = b.MaxAgeDays
    /\ LastIdx(s, "MaxBackups") # 0 => a.MaxBackups = b.MaxBackups
    /\ LastIdx(s, "MaxSize") # 0 => a.MaxSizeMB = b.MaxSizeMB
    /\ LastIdx(s, "Compression") # 0 => a.Compress = b.Compress
    /\ LastIdx(s, "JSONFormat") # 0 => a.JSONFormat = b.JSONFormat
    /\ LastIdx(s, "DefaultFormat") # 0 => a.UseDefault = b.UseDefault
\* C8, amended: for every p that New(p) gives the parent's configuration,
\* New(p).WithOptions(s).GetConfig() = New(p followed by s).GetConfig(), and it
\* agrees with New(s).GetConfig() on every field that s sets.
C8_Composition ==
    (lastCall.op = "WithOptions" /\ origin[lastCall.l] = "New") =>
        /\ \E p \in OptSeqs : ApplyOpts(NewDefaults, p) = GetConfig(loggers[lastCall.l])
        /\ \A p \in OptSeqs :
              ApplyOpts(NewDefaults, p) = GetConfig(loggers[lastCall.l]) =>
                  GetConfig(loggers[lastCall.res]) = ApplyOpts(NewDefaults, p \o lastCall.opts)
        /\ C8_FieldsAgree(GetConfig(loggers[lastCall.res]),
                          ApplyOpts(NewDefaults, lastCall.opts), lastCall.opts)

C8_Witness ==
    /\ lastCall.op = "WithOptions"
    /\ origin[lastCall.l] = "New"
    /\ lastCall.opts = <<WithDebugLevel>>
    /\ GetConfig(loggers[lastCall.l]).JSONFormat
    /\ GetConfig(loggers[lastCall.res]).JSONFormat
    /\ GetConfig(loggers[lastCall.res]) # ApplyOpts(NewDefaults, lastCall.opts)

\* C9, as stated: on every logger the sink is the file writer iff the output
\* path is non-empty and standard output iff it is empty.
C9_Original ==
    \A l \in DOMAIN loggers :
        /\ loggers[l].handler.out = "file" <=> GetConfig(loggers[l]).OutputFile # ""
        /\ loggers[l].handler.out = "stdout" <=> GetConfig(loggers[l]).OutputFile = ""

\* C9, amended: on every logger whose level is not off and which does not use
\* the default format the sink is the file writer iff the output path is
\* non-empty and standard output iff it is empty; a logger with level off has
\* the discard sink and a logger using the default format has the process
\* default logger, whatever the path.
C9_SinkByPath ==
    \A l \in DOMAIN loggers :
        LET c == GetConfig(loggers[l])
            h == loggers[l].handler
        IN  IF c.Level = "off" THEN h.out = "discard"
            ELSE IF c.UseDefault THEN h.out = "default"
            ELSE /\ h.out \in {"file", "stdout"}
                 /\ h.out = "file" <=> c.OutputFile # ""
                 /\ h.out = "stdout" <=> c.OutputFile = ""
                 /\ (h.out = "file") <=> (loggers[l].file # 0 /\ h.w = loggers[l].file)

C9_Witness ==
    /\ lastCall.op = "Close"
    /\ \E r \in written : r.by = lastCall.l /\ r.target = "file"
    /\ loggers[lastCall.l].handler.out = "file"
    /\ \E l \in DOMAIN loggers :
          /\ GetConfig(loggers[l]).OutputFile = ""
          /\ loggers[l].handler.out = "stdout"

\* No nil sink was read; a logger a caller holds is initialized and no thread
\* is initializing it; initLogger and Close run with the mutex held.
C10_Initialized ==
    /\ ~nilSeen
    /\ \A l \in published :
          /\ loggers[l].handler.out # "nil"
          /\ \A t \in Threads : pc[t] \in {"lock", "early", "file", "handler", "unlock"} =>
                (Me(t) # l \/ frame[t].op = "Close")
    /\ \A t \in Threads :
          pc[t] \in {"early", "file", "handler", "close", "unlock"} => mu[Me(t)] = t
\* A log call leaves every mutex as it is.
C10_LogLockFree ==
    \A t \in Threads : \A l \in DOMAIN loggers : \A sev \in Severities :
        LogCall(t, l, sev) => mu' = mu
\* C10: no log call reads a logger whose sink is not yet set; every logger a
\* caller holds is completely initialized; the statements of initLogger and of
\* Close run with the logger's mutex held by the running thread; a log call
\* neither takes nor releases a mutex.
C10_NoHalfInitializedSink == [](C10_Initialized) /\ [][C10_LogLockFree]_vars

C10_Witness ==
    /\ written # {}
    /\ \E t \in Threads :
          /\ pc[t] = "handler"
          /\ loggers[Me(t)].file # 0
          /\ loggers[Me(t)].handler.out = "nil"
          /\ Me(t) \notin published

====
